---- MODULE Spec2Model ----
(***************************************************************************)
(* Month-by-month simulation engines of the SIP step-up calculator         *)
(* (sip_stepup_calculator.py, duplicated in backup.py) and of the SWP      *)
(* percent-withdrawal calculator (swp_calculator.py).                      *)
(*                                                                         *)
(* One behaviour is one run of one of the two scripts: Init draws the      *)
(* widget values, every loop iteration is one step, the summary is the     *)
(* last step.                                                              *)
(*                                                                         *)
(* Numbers.  The scripts compute on Python floats.  Here an amount is an   *)
(* integer number of units, Rupee units to the rupee, and every float      *)
(* multiplication is one correctly rounded operation (nearest unit, ties   *)
(* to even).  Rates stay exact: an annual percentage p stands for the      *)
(* monthly rate p/1200, a step-up percentage s for the factor (100+s)/100. *)
(***************************************************************************)
EXTENDS Integers, Sequences, FiniteSets, TLC

\* ------------------------------------------------------------------ bounds
MaxYears == 2          \* tenure slider explored up to this many years
MaxRuns == 2           \* executions of the script on the same widget values
Cent == 10             \* units per 0.01 rupee: precision kept below the paisa
Rupee == 100 * Cent    \* units per rupee

\* --------------------------------------------------- widget values explored
LumpSums == {0, 100000}
MonthlySips == {0, 10000}
AnnualReturnPcts == {0, 12}
StepupPcts == {0, 10}
LumpSumTimings == {"Invest today (t=0)", "Invest after 1 month"}

InitialCorpora == {0, 1, 100000}
ExpReturnPcts == {0, 12}
WithdrawPcts == {0, 24, 960, 1200, 2400}
WithdrawTimings == {"Start of month", "End of month"}

\* amounts handed to format_indian_currency, in hundredths of a rupee
FormatInputs ==
  {0, 99900, 100000, 500000, 1234550, 9999900, 9999949, 9999950, 10000000,
   25000000, 123456789, 999999900, 1000000000, 1250000000, 2000000000}

VARIABLES
  prog,                  \* which script runs: "sip" or "swp"
  pc,                    \* position of the script
  \* sip_stepup_calculator.py
  lump_sum, monthly_sip, years, annual_return_pct, stepup_pct,
  lump_sum_timing, invest_at_beginning,
  total_sip_contrib, total_lumpsum_contrib,
  principal, future_value, returns,
  \* swp_calculator.py
  initial_corpus, exp_return_pa, tenure_years, withdraw_start_year,
  withdraw_pct_pa, withdraw_timing,
  start_month, total_withdrawn, months_simulated, ending_corpus,
  \* locals both scripts have under the same name
  months, m, balance, rows,
  \* the executions of the script
  run,                   \* number of the current execution, from 1
  prev,                  \* what the previous execution produced
  \* format_indian_currency
  amount,                \* its argument n, in hundredths of a rupee
  shown                  \* the string it returned

sipInputs == <<lump_sum, monthly_sip, years, annual_return_pct, stepup_pct,
               lump_sum_timing, invest_at_beginning>>
sipLocals == <<total_sip_contrib, total_lumpsum_contrib>>
sipSummary == <<principal, future_value, returns>>
swpInputs == <<initial_corpus, exp_return_pa, tenure_years,
               withdraw_start_year, withdraw_pct_pa, withdraw_timing>>
swpLocals == <<start_month, total_withdrawn, months_simulated>>
runVars == <<run, prev>>
fmtVars == <<amount, shown>>
vars == <<prog, pc, sipInputs, sipLocals, sipSummary, swpInputs, swpLocals,
          ending_corpus, months, m, balance, rows, runVars, fmtVars>>

\* ------------------------------------------------------------- arithmetic
\* The float product a * (n/d), rounded once to the nearest unit, ties to
\* even.  Split as (a \div d)*n + (a % d)*n/d so no intermediate exceeds the
\* integer range.
MulDiv(a, n, d) ==
  LET p == (a % d) * n
      f == (a \div d) * n + (p \div d)
      t == 2 * (p % d)
  IN  IF t < d THEN f
      ELSE IF t > d THEN f + 1
      ELSE IF f % 2 = 0 THEN f ELSE f + 1

RECURSIVE Pow(_, _)
Pow(b, e) == IF e = 0 THEN 1 ELSE b * Pow(b, e - 1)

Max(a, b) == IF a >= b THEN a ELSE b

\* round(x, 2): to the nearest 0.01 rupee
Round2(x) == MulDiv(x, 1, Cent) * Cent

Last(s) == s[Len(s)]

\* ------------------------------------------------- sip_stepup_calculator.py
\* variant: the year index taken from m instead of m - 1
yr_idx_FromM(mm) == mm \div 12

\* yr_idx = (m - 1) // 12
yr_idx(mm) == (mm - 1) \div 12

\* monthly_sip * ((1 + g) ** yr_idx), g = stepup_pct / 100
month_sip_amount(mm) ==
  MulDiv(monthly_sip * Rupee, Pow(100 + stepup_pct, yr_idx(mm)),
         Pow(100, yr_idx(mm)))

\* variant: the second lump-sum test without its month
LumpDue_NoMonthTest(mm) ==
  IF mm = 1 /\ lump_sum > 0 /\ lump_sum_timing = "Invest today (t=0)"
    THEN lump_sum * Rupee
  ELSE IF mm >= 2 /\ lump_sum > 0 /\ lump_sum_timing = "Invest after 1 month"
    THEN lump_sum * Rupee
  ELSE 0

\* the two lump-sum ifs of the loop body: the amount added in month mm
LumpDue(mm) ==
  IF mm = 1 /\ lump_sum > 0 /\ lump_sum_timing = "Invest today (t=0)"
    THEN lump_sum * Rupee
  ELSE IF mm = 2 /\ lump_sum > 0 /\ lump_sum_timing = "Invest after 1 month"
    THEN lump_sum * Rupee
  ELSE 0

\* variant: balance *= r
Grow_RateOnly(b) ==
  IF annual_return_pct > 0 THEN MulDiv(b, annual_return_pct, 1200)
  ELSE b

\* if r > 0: balance *= (1 + r), r = annual_return_pct / 100 / 12
Grow(b) ==
  IF annual_return_pct > 0 THEN MulDiv(b, 1200 + annual_return_pct, 1200)
  ELSE b

\* contribution added before growth / after growth
SipBefore(mm) == IF invest_at_beginning THEN month_sip_amount(mm) ELSE 0
SipAfter(mm) == IF ~invest_at_beginning THEN month_sip_amount(mm) ELSE 0

\* variant: the lump sum added after growth
MonthBalance_LumpAfterGrowth(mm, b) ==
  Grow(b + SipBefore(mm)) + LumpDue(mm) + SipAfter(mm)

\* variant: the contribution always added before growth
MonthBalance_AlwaysBefore(mm, b) ==
  Grow(b + month_sip_amount(mm) + LumpDue(mm))

\* the balance at the end of one loop iteration
MonthBalance(mm, b) == Grow(b + SipBefore(mm) + LumpDue(mm)) + SipAfter(mm)

\* principal, future_value, returns from the ledger
SipPrincipal(rs, lump) == IF rs # <<>> THEN Last(rs).Invested ELSE lump * Rupee
\* variant: future_value read from the Invested column
SipFutureValue_Invested(rs, lump) == IF rs # <<>> THEN Last(rs).Invested
                                     ELSE SipPrincipal(rs, lump)
SipFutureValue(rs, lump) == IF rs # <<>> THEN Last(rs).Value
                            ELSE SipPrincipal(rs, lump)
SipReturns(rs, lump) == Max(SipFutureValue(rs, lump) - SipPrincipal(rs, lump), 0)

\* nothing produced yet
NoPrev == [pc |-> "", rows |-> <<>>, summary |-> <<>>]

firstRun == run = 1 /\ prev = NoPrev

fmtIdle == amount = 0 /\ shown = ""

swpIdle ==
  /\ initial_corpus = 0 /\ exp_return_pa = 0 /\ tenure_years = 0
  /\ withdraw_start_year = 0 /\ withdraw_pct_pa = 0 /\ withdraw_timing = ""
  /\ start_month = 0 /\ total_withdrawn = 0 /\ months_simulated = 0
  /\ ending_corpus = 0

\* widgets read, months computed, balance = 0.0, rows = [], totals = 0.0
InitSip ==
  /\ prog = "sip" /\ pc = "loop"
  /\ lump_sum \in LumpSums
  /\ monthly_sip \in MonthlySips
  /\ years \in 1..MaxYears
  /\ annual_return_pct \in AnnualReturnPcts
  /\ stepup_pct \in StepupPcts
  /\ lump_sum_timing \in LumpSumTimings
  /\ invest_at_beginning \in BOOLEAN
  /\ months = years * 12
  /\ m = 1 /\ balance = 0 /\ rows = <<>>
  /\ total_sip_contrib = 0 /\ total_lumpsum_contrib = 0
  /\ principal = 0 /\ future_value = 0 /\ returns = 0
  /\ swpIdle
  /\ firstRun
  /\ fmtIdle

\* one iteration of `for m in range(1, months + 1)`
SipMonth ==
  /\ prog = "sip" /\ pc = "loop" /\ m <= months
  /\ LET sip_amt == month_sip_amount(m)
         tsc == total_sip_contrib + sip_amt
         tlc == total_lumpsum_contrib + LumpDue(m)
         bal == MonthBalance(m, balance)
     IN  /\ total_sip_contrib' = tsc
         /\ total_lumpsum_contrib' = tlc
         /\ balance' = bal
         /\ rows' = Append(rows, [Month |-> m, SIP |-> sip_amt,
                                  Invested |-> tsc + tlc, Value |-> bal])
  /\ m' = m + 1
  /\ UNCHANGED <<prog, runVars, fmtVars, pc, sipInputs, sipSummary, swpInputs, swpLocals,
                 ending_corpus, months>>

\* variant: the loop one month short
SipSummary_OneShort ==
  /\ prog = "sip" /\ pc = "loop" /\ m >= months
  /\ principal' = SipPrincipal(rows, lump_sum)
  /\ future_value' = SipFutureValue(rows, lump_sum)
  /\ returns' = SipReturns(rows, lump_sum)
  /\ pc' = "done"
  /\ UNCHANGED <<prog, runVars, fmtVars, sipInputs, sipLocals, swpInputs, swpLocals,
                 ending_corpus, months, m, balance, rows>>

\* the loop is exhausted: df, principal, future_value, returns
SipSummary ==
  /\ prog = "sip" /\ pc = "loop" /\ m > months
  /\ principal' = SipPrincipal(rows, lump_sum)
  /\ future_value' = SipFutureValue(rows, lump_sum)
  /\ returns' = SipReturns(rows, lump_sum)
  /\ pc' = "done"
  /\ UNCHANGED <<prog, runVars, fmtVars, sipInputs, sipLocals, swpInputs, swpLocals,
                 ending_corpus, months, m, balance, rows>>

\* variant: the balance kept from the previous execution
SipRerun_KeepsBalance ==
  /\ prog = "sip" /\ pc = "done" /\ run < MaxRuns
  /\ prev' = [pc |-> pc, rows |-> rows,
              summary |-> <<principal, future_value, returns>>]
  /\ run' = run + 1
  /\ months' = years * 12
  /\ m' = 1 /\ rows' = <<>>
  /\ total_sip_contrib' = 0 /\ total_lumpsum_contrib' = 0
  /\ principal' = 0 /\ future_value' = 0 /\ returns' = 0
  /\ pc' = "loop"
  /\ UNCHANGED <<prog, fmtVars, sipInputs, swpInputs, swpLocals, ending_corpus,
                 balance>>

\* the script executed again from the top on the same widget values:
\* months recomputed, balance = 0.0, rows = [], totals = 0.0
SipRerun ==
  /\ prog = "sip" /\ pc = "done" /\ run < MaxRuns
  /\ prev' = [pc |-> pc, rows |-> rows,
              summary |-> <<principal, future_value, returns>>]
  /\ run' = run + 1
  /\ months' = years * 12
  /\ m' = 1 /\ balance' = 0 /\ rows' = <<>>
  /\ total_sip_contrib' = 0 /\ total_lumpsum_contrib' = 0
  /\ principal' = 0 /\ future_value' = 0 /\ returns' = 0
  /\ pc' = "loop"
  /\ UNCHANGED <<prog, fmtVars, sipInputs, swpInputs, swpLocals, ending_corpus>>

\* ------------------------------------------------------- swp_calculator.py
\* x * r_m or x * w_m, the rate being pct / 100 / 12
Rate(x, pct) == MulDiv(x, pct, 1200)

\* variant: >= in the validation
StartAfterTenure_OrEqual == withdraw_start_year >= tenure_years

\* if withdraw_start_year > tenure_years
StartAfterTenure == withdraw_start_year > tenure_years

\* variant: the start month without its + 1
StartMonthOf_YearEnd(y) == (y - 1) * 12

\* start_month = (int(withdraw_start_year) - 1) * 12 + 1
StartMonthOf(y) == (y - 1) * 12 + 1

\* variant: active only after the start month
withdrawals_active_After(mm) == mm > start_month

\* withdrawals_active = (m >= start_month)
withdrawals_active(mm) == mm >= start_month

\* variant: at the end of the month the withdrawal taken on the opening
\* balance instead of the grown balance
MonthFlowsAt_EndOnOpening(timing, mm, opening) ==
  IF ~withdrawals_active(mm) THEN
    LET growth == Rate(opening, exp_return_pa)
    IN  [withdrawal |-> 0, growth |-> growth, balance |-> opening + growth,
         phase |-> "Growth only"]
  ELSE IF timing = "Start of month" THEN
    LET withdrawal == Rate(opening, withdraw_pct_pa)
        after_withdraw == opening - withdrawal
        growth == Rate(after_withdraw, exp_return_pa)
    IN  [withdrawal |-> withdrawal, growth |-> growth,
         balance |-> after_withdraw + growth, phase |-> "Withdrawal"]
  ELSE
    LET growth == Rate(opening, exp_return_pa)
        mid == opening + growth
        withdrawal == Rate(opening, withdraw_pct_pa)
    IN  [withdrawal |-> withdrawal, growth |-> growth,
         balance |-> mid - withdrawal, phase |-> "Withdrawal"]

\* withdrawal, growth and closing balance of one month with opening > 0,
\* for a given value of withdraw_timing
MonthFlowsAt(timing, mm, opening) ==
  IF ~withdrawals_active(mm) THEN
    LET growth == Rate(opening, exp_return_pa)
    IN  [withdrawal |-> 0, growth |-> growth, balance |-> opening + growth,
         phase |-> "Growth only"]
  ELSE IF timing = "Start of month" THEN
    LET withdrawal == Rate(opening, withdraw_pct_pa)
        after_withdraw == opening - withdrawal
        growth == Rate(after_withdraw, exp_return_pa)
    IN  [withdrawal |-> withdrawal, growth |-> growth,
         balance |-> after_withdraw + growth, phase |-> "Withdrawal"]
  ELSE
    LET growth == Rate(opening, exp_return_pa)
        mid == opening + growth
        withdrawal == Rate(mid, withdraw_pct_pa)
    IN  [withdrawal |-> withdrawal, growth |-> growth,
         balance |-> mid - withdrawal, phase |-> "Withdrawal"]

\* the same with the timing the user selected
MonthFlows(mm, opening) == MonthFlowsAt(withdraw_timing, mm, opening)

\* the row appended for a month with opening > 0
MonthRow(mm, opening, f) ==
  [Month |-> mm, Opening |-> Round2(opening),
   Withdrawal |-> Round2(f.withdrawal), Growth |-> Round2(f.growth),
   Closing |-> Round2(f.balance), Phase |-> f.phase]

\* the row appended when the opening balance is <= 0
DepletedRow(mm) ==
  [Month |-> mm, Opening |-> 0, Withdrawal |-> 0, Growth |-> 0,
   Closing |-> 0, Phase |-> "Depleted"]

\* variant: no break after the row
StopsAfterRow_Never(bal) == FALSE

\* variant: break only below zero
StopsAfterRow_Strict(bal) == bal < 0

\* `if balance <= 0: break` after the row is appended
StopsAfterRow(bal) == bal <= 0

\* the loop run for k iterations (or until its break) under a given timing:
\* the balance, the months simulated, and whether the loop has broken
RECURSIVE LoopAt(_, _)
LoopAt(timing, k) ==
  IF k = 0 THEN [balance |-> initial_corpus * Rupee, months |-> 0,
                 over |-> FALSE]
  ELSE
    LET p == LoopAt(timing, k - 1)
    IN  IF p.over THEN p
        ELSE IF p.balance <= 0
          THEN [balance |-> p.balance, months |-> k, over |-> TRUE]
        ELSE LET f == MonthFlowsAt(timing, k, p.balance)
             IN  [balance |-> f.balance, months |-> k,
                  over |-> StopsAfterRow(f.balance)]

\* ending_corpus = last Closing Corpus, 0.0 for an empty frame
EndingCorpus(rs) == IF rs # <<>> THEN Last(rs).Closing ELSE 0

sipIdle ==
  /\ lump_sum = 0 /\ monthly_sip = 0 /\ years = 0 /\ annual_return_pct = 0
  /\ stepup_pct = 0 /\ lump_sum_timing = "" /\ invest_at_beginning = FALSE
  /\ total_sip_contrib = 0 /\ total_lumpsum_contrib = 0
  /\ principal = 0 /\ future_value = 0 /\ returns = 0

\* widgets read, nothing computed yet
InitSwp ==
  /\ prog = "swp" /\ pc = "validate"
  /\ initial_corpus \in InitialCorpora
  /\ exp_return_pa \in ExpReturnPcts
  /\ tenure_years \in 1..MaxYears
  /\ withdraw_start_year \in 1..(MaxYears + 1)
  /\ withdraw_pct_pa \in WithdrawPcts
  /\ withdraw_timing \in WithdrawTimings
  /\ start_month = 0 /\ total_withdrawn = 0 /\ months_simulated = 0
  /\ ending_corpus = 0
  /\ months = 0 /\ m = 0 /\ balance = 0 /\ rows = <<>>
  /\ sipIdle
  /\ firstRun
  /\ fmtIdle

\* st.error(...); st.stop()
SwpReject ==
  /\ prog = "swp" /\ pc = "validate"
  /\ StartAfterTenure
  /\ pc' = "stopped"
  /\ UNCHANGED <<prog, runVars, fmtVars, sipInputs, sipLocals, sipSummary, swpInputs, swpLocals,
                 ending_corpus, months, m, balance, rows>>

\* months, r_m, w_m, start_month, rows = [], balance, totals
SwpSetup ==
  /\ prog = "swp" /\ pc = "validate"
  /\ ~StartAfterTenure
  /\ months' = tenure_years * 12
  /\ start_month' = StartMonthOf(withdraw_start_year)
  /\ rows' = <<>>
  /\ balance' = initial_corpus * Rupee
  /\ total_withdrawn' = 0
  /\ months_simulated' = 0
  /\ m' = 1
  /\ pc' = "loop"
  /\ UNCHANGED <<prog, runVars, fmtVars, sipInputs, sipLocals, sipSummary, swpInputs,
                 ending_corpus>>

\* an iteration that finds opening <= 0: Depleted row, break
SwpDepleted ==
  /\ prog = "swp" /\ pc = "loop" /\ m <= months
  /\ balance <= 0
  /\ rows' = Append(rows, DepletedRow(m))
  /\ months_simulated' = m
  /\ pc' = "summary"
  /\ UNCHANGED <<prog, runVars, fmtVars, sipInputs, sipLocals, sipSummary, swpInputs,
                 start_month, total_withdrawn, ending_corpus, months, m,
                 balance>>

\* an iteration with opening > 0: flows, row, break when balance <= 0
SwpMonth ==
  /\ prog = "swp" /\ pc = "loop" /\ m <= months
  /\ balance > 0
  /\ LET f == MonthFlows(m, balance)
     IN  /\ balance' = f.balance
         /\ total_withdrawn' = IF withdrawals_active(m)
                                 THEN total_withdrawn + f.withdrawal
                                 ELSE total_withdrawn
         /\ months_simulated' = m
         /\ rows' = Append(rows, MonthRow(m, balance, f))
         /\ IF StopsAfterRow(f.balance)
              THEN pc' = "summary" /\ m' = m
              ELSE pc' = "loop" /\ m' = m + 1
  /\ UNCHANGED <<prog, runVars, fmtVars, sipInputs, sipLocals, sipSummary, swpInputs,
                 start_month, ending_corpus, months>>

\* after the loop: df, ending_corpus
SwpSummary ==
  /\ prog = "swp"
  /\ \/ pc = "summary"
     \/ pc = "loop" /\ m > months
  /\ ending_corpus' = EndingCorpus(rows)
  /\ pc' = "done"
  /\ UNCHANGED <<prog, runVars, fmtVars, sipInputs, sipLocals, sipSummary, swpInputs, swpLocals,
                 months, m, balance, rows>>

\* the script executed again from the top on the same widget values
SwpRerun ==
  /\ prog = "swp" /\ pc \in {"done", "stopped"} /\ run < MaxRuns
  /\ prev' = [pc |-> pc, rows |-> rows,
              summary |-> <<total_withdrawn, months_simulated,
                            ending_corpus>>]
  /\ run' = run + 1
  /\ start_month' = 0 /\ total_withdrawn' = 0 /\ months_simulated' = 0
  /\ ending_corpus' = 0
  /\ months' = 0 /\ m' = 0 /\ balance' = 0 /\ rows' = <<>>
  /\ pc' = "validate"
  /\ UNCHANGED <<prog, fmtVars, sipInputs, sipLocals, sipSummary, swpInputs>>

\* ------------------------------------------------- format_indian_currency
Crore == 10000000
Lakh == 100000

Digit2(k) == IF k < 10 THEN "0" \o ToString(k) ELSE ToString(k)
Digit3(k) == IF k < 100 THEN "0" \o Digit2(k) ELSE ToString(k)

\* {x:.2f} of a value given in hundredths
Fixed2(h) == ToString(h \div 100) \o "." \o Digit2(h % 100)

\* {k:,} of a whole number
RECURSIVE Grouped(_)
Grouped(k) ==
  IF k < 1000 THEN ToString(k)
  ELSE Grouped(k \div 1000) \o "," \o Digit3(k % 1000)

\* variant: > in the first threshold
format_indian_currency_Above(p) ==
  IF p > Crore * 100 THEN "₹ " \o Fixed2(MulDiv(p, 1, Crore)) \o " Cr"
  ELSE IF p >= Lakh * 100 THEN "₹ " \o Fixed2(MulDiv(p, 1, Lakh)) \o " L"
  ELSE "₹ " \o Grouped(MulDiv(p, 1, 100))

\* format_indian_currency(n) for n = p / 100
format_indian_currency(p) ==
  IF p >= Crore * 100 THEN "₹ " \o Fixed2(MulDiv(p, 1, Crore)) \o " Cr"
  ELSE IF p >= Lakh * 100 THEN "₹ " \o Fixed2(MulDiv(p, 1, Lakh)) \o " L"
  ELSE "₹ " \o Grouped(MulDiv(p, 1, 100))

\* an amount is about to be formatted
InitFmt ==
  /\ prog = "fmt" /\ pc = "call"
  /\ amount \in FormatInputs
  /\ shown = ""
  /\ months = 0 /\ m = 0 /\ balance = 0 /\ rows = <<>>
  /\ sipIdle /\ swpIdle /\ firstRun

\* one call of format_indian_currency
FmtCall ==
  /\ prog = "fmt" /\ pc = "call"
  /\ shown' = format_indian_currency(amount)
  /\ pc' = "done"
  /\ UNCHANGED <<prog, amount, runVars, sipInputs, sipLocals, sipSummary,
                 swpInputs, swpLocals, ending_corpus, months, m, balance,
                 rows>>

\* ------------------------------------------------------------ specification
Init == InitSip \/ InitSwp \/ InitFmt
Next ==
  \/ SipMonth
  \/ SipSummary
  \/ SipRerun
  \/ SwpReject
  \/ SwpSetup
  \/ SwpDepleted
  \/ SwpMonth
  \/ SwpSummary
  \/ SwpRerun
  \/ FmtCall
Spec == Init /\ [][Next]_vars

\* -------------------------------------------------------------------- types
TypeOK ==
  /\ prog \in {"sip", "swp", "fmt"}
  /\ pc \in {"validate", "stopped", "loop", "summary", "done", "call"}
  /\ m \in 0..(months + 1)
  /\ Len(rows) <= months
  /\ balance \in Int

\* ------------------------------------------------------ accumulation claims
SipRun == prog = "sip"
SipDone == prog = "sip" /\ pc = "done"

\* the end-to-end example of the specification
ExampleRun ==
  /\ SipRun
  /\ lump_sum = 100000 /\ monthly_sip = 10000 /\ years = 1
  /\ annual_return_pct = 12 /\ stepup_pct = 0
  /\ lump_sum_timing = "Invest today (t=0)" /\ ~invest_at_beginning

\* C1 as stated: in the example run the month-1 row has contribution 10000
\* and balance (100000 + 10000) * 1.01 = 111100, and the final principal is
\* 220000.
C1_AsStated ==
  ExampleRun =>
    /\ rows # <<>> => /\ rows[1].SIP = 10000 * Rupee
                      /\ rows[1].Value = 111100 * Rupee
    /\ pc = "done" => principal = 220000 * Rupee

\* C1 amended: in the example run the month-1 row has contribution 10000 and
\* balance 100000 * 1.01 + 10000 = 111000 (the end-of-month contribution is
\* added after growth), and the final principal is 220000.
C1_ExampleRun ==
  ExampleRun =>
    /\ rows # <<>> => /\ rows[1].SIP = 10000 * Rupee
                      /\ rows[1].Value = 111000 * Rupee
    /\ pc = "done" => /\ Len(rows) = 12
                      /\ principal = 220000 * Rupee

C1_Witness == ExampleRun /\ pc = "done" /\ Len(rows) = 12

\* what month i added to the cumulative principal beyond its contribution
LumpInRow(i) ==
  rows[i].Invested - (IF i = 1 THEN 0 ELSE rows[i - 1].Invested) - rows[i].SIP

LumpMonth == IF lump_sum_timing = "Invest today (t=0)" THEN 1 ELSE 2

\* C3: with lump_sum > 0 the lump sum enters the cumulative principal and
\* the balance exactly once, in month 1 for MONTH_1 and in month 2 for
\* MONTH_2, and in no other month.  (At rate 0 the balance equals the
\* cumulative principal, so the balance shows the lump sum once as well.)
C3_LumpSumOnce ==
  SipRun /\ lump_sum > 0 =>
    /\ \A i \in 1..Len(rows) :
         LumpInRow(i) = IF i = LumpMonth THEN lump_sum * Rupee ELSE 0
    /\ total_lumpsum_contrib =
         IF Len(rows) >= LumpMonth THEN lump_sum * Rupee ELSE 0
    /\ annual_return_pct = 0 =>
         /\ balance = total_sip_contrib + total_lumpsum_contrib
         /\ \A i \in 1..Len(rows) : rows[i].Value = rows[i].Invested

C3_Witness ==
  /\ SipDone /\ lump_sum > 0 /\ lump_sum_timing = "Invest after 1 month"
  /\ total_lumpsum_contrib = lump_sum * Rupee
  /\ LumpInRow(2) = lump_sum * Rupee /\ LumpInRow(1) = 0

\* C6: the accumulation ledger grows by one row per simulated month, the
\* rows carry the month indices 1, 2, ... in order, and the finished run has
\* exactly tenureMonths = years * 12 rows.
C6_LedgerLength ==
  SipRun =>
    /\ Len(rows) = m - 1
    /\ Len(rows) <= years * 12
    /\ \A i \in 1..Len(rows) : rows[i].Month = i
    /\ pc = "done" => Len(rows) = years * 12

C6_Witness == SipDone /\ years = MaxYears /\ Len(rows) = 12 * MaxYears

\* the parts of C7 that do not depend on the base contribution
StepUpShape ==
  /\ \A i \in 1..Len(rows) : i <= 12 => rows[i].SIP = monthly_sip * Rupee
  /\ \A i \in 1..Len(rows) :
       i > 12 => rows[i].SIP = MulDiv(rows[i - 12].SIP, 100 + stepup_pct, 100)
  /\ \A i, j \in 1..Len(rows) :
       (i - 1) \div 12 = (j - 1) \div 12 => rows[i].SIP = rows[j].SIP

\* C7 as stated: contribution constant over months 1-12 and over 13-24,
\* month 13 = month 1 * (1 + stepUpRate), and the months 13-24 value distinct
\* from the months 1-12 value whenever stepUpRate > 0.
C7_AsStated ==
  SipRun =>
    /\ StepUpShape
    /\ stepup_pct > 0 /\ Len(rows) >= 13 => rows[13].SIP # rows[1].SIP

\* C7 amended: as stated, but the months 13-24 value is distinct from (larger
\* than) the months 1-12 value whenever stepUpRate > 0 and the base monthly
\* contribution is > 0; with a base contribution of 0 every contribution is 0.
C7_StepUp ==
  SipRun =>
    /\ StepUpShape
    /\ stepup_pct > 0 /\ monthly_sip > 0 /\ Len(rows) >= 13 =>
         rows[13].SIP > rows[1].SIP
    /\ monthly_sip = 0 => \A i \in 1..Len(rows) : rows[i].SIP = 0

C7_Witness ==
  /\ SipDone /\ stepup_pct > 0 /\ monthly_sip > 0 /\ Len(rows) >= 24
  /\ rows[12].SIP = rows[1].SIP /\ rows[13].SIP > rows[12].SIP
  /\ rows[24].SIP = rows[13].SIP

\* C8: the balance recorded in the accumulation ledger never decreases from
\* one row to the next, whatever the timings.
C8_Monotone ==
  SipRun => \A i \in 2..Len(rows) : rows[i].Value >= rows[i - 1].Value

C8_Witness ==
  /\ SipDone /\ annual_return_pct > 0 /\ monthly_sip = 0 /\ lump_sum > 0
  /\ \A i \in 3..Len(rows) : rows[i].Value > rows[i - 1].Value

\* C10: after the loop principal is the last row's cumulative principal (all
\* contributions plus the lump sum applied), future_value is the last row's
\* balance, returns = max(future_value - principal, 0) >= 0; on an empty
\* ledger principal = lump sum, future_value = principal, returns = 0.
C10_Summary ==
  /\ SipDone =>
       /\ principal = Last(rows).Invested
       /\ principal = total_sip_contrib + total_lumpsum_contrib
       /\ future_value = Last(rows).Value
       /\ future_value = balance
       /\ returns = IF future_value > principal
                      THEN future_value - principal ELSE 0
       /\ returns >= 0
  /\ \A l \in LumpSums :
       /\ SipPrincipal(<<>>, l) = l * Rupee
       /\ SipFutureValue(<<>>, l) = l * Rupee
       /\ SipReturns(<<>>, l) = 0

C10_Witness == SipDone /\ returns > 0 /\ principal > 0 /\ lump_sum > 0

\* ------------------------------------------------------ decumulation claims
SwpRun == prog = "swp"
SwpDone == prog = "swp" /\ pc = "done"

C4_NeverNegative ==
  SwpRun =>
    /\ balance >= 0
    /\ \A i \in 1..Len(rows) : rows[i].Closing >= 0

\* C5: a start month beyond the tenure is rejected before any month is
\* simulated, with no ledger row and no summary; a start month within the
\* tenure is never rejected and the simulation runs.
C5_Validation ==
  SwpRun =>
    /\ pc = "stopped" =>
         /\ StartMonthOf(withdraw_start_year) > tenure_years * 12
         /\ rows = <<>> /\ m = 0 /\ months_simulated = 0
         /\ total_withdrawn = 0 /\ ending_corpus = 0
    /\ pc \in {"loop", "summary", "done"} =>
         /\ StartMonthOf(withdraw_start_year) <= tenure_years * 12
         /\ start_month <= months
    /\ pc = "done" => rows # <<>>

C5_Witness == SwpRun /\ pc = "stopped" /\ withdraw_start_year = tenure_years + 1

\* C9: a row whose closing balance is <= 0 is the last row of the ledger,
\* and the summary has months_simulated = month of the last row,
\* ending_corpus = its closing balance, total_withdrawn = the running total
\* of the active months (0 when no month was active).
C9_DepletedRowIsLast ==
  SwpRun =>
    /\ \A i \in 1..Len(rows) : rows[i].Closing <= 0 => i = Len(rows)
    /\ pc = "done" =>
         /\ months_simulated = Last(rows).Month
         /\ ending_corpus = Last(rows).Closing
         /\ months_simulated < start_month => total_withdrawn = 0

\* -------------------------------------------------------------- determinism
IsPrefix(s, t) == Len(s) <= Len(t) /\ s = SubSeq(t, 1, Len(s))

FormatTable(p) ==
  CASE p = 0 -> "₹ 0"
    [] p = 99900 -> "₹ 999"
    [] p = 100000 -> "₹ 1,000"
    [] p = 500000 -> "₹ 5,000"
    [] p = 1234550 -> "₹ 12,346"
    [] p = 9999900 -> "₹ 99,999"
    [] p = 9999949 -> "₹ 99,999"
    [] p = 9999950 -> "₹ 100,000"
    [] p = 10000000 -> "₹ 1.00 L"
    [] p = 25000000 -> "₹ 2.50 L"
    [] p = 123456789 -> "₹ 12.35 L"
    [] p = 999999900 -> "₹ 100.00 L"
    [] p = 1000000000 -> "₹ 1.00 Cr"
    [] p = 1250000000 -> "₹ 1.25 Cr"
    [] p = 2000000000 -> "₹ 2.00 Cr"
    [] OTHER -> "?"

\* C12: n >= 10,000,000 is shown as n/10,000,000 with 2 decimals and " Cr",
\* 100,000 <= n < 10,000,000 as n/100,000 with 2 decimals and " L", a
\* smaller n as a grouped integer: 12500000 gives "₹ 1.25 Cr", 250000 gives
\* "₹ 2.50 L", 5000 gives "₹ 5,000", and the thresholds themselves fall on
\* the Cr and L side.
C12_Format ==
  prog = "fmt" /\ pc = "done" =>
    /\ shown = FormatTable(amount)
    /\ amount = 1250000000 => shown = "₹ 1.25 Cr"
    /\ amount = 25000000 => shown = "₹ 2.50 L"
    /\ amount = 500000 => shown = "₹ 5,000"

C12_Witness ==
  prog = "fmt" /\ pc = "done" /\ amount = 1250000000 /\ shown = "₹ 1.25 Cr"

\* ------------------------------------------------------ order within a month
\* balance * (1 + monthlyRate), nothing at rate 0
Grown(x) ==
  IF annual_return_pct = 0 THEN x
  ELSE MulDiv(x, 1200 + annual_return_pct, 1200)

ValueBefore(i) == IF i = 1 THEN 0 ELSE rows[i - 1].Value
InvestedBefore(i) == IF i = 1 THEN 0 ELSE rows[i - 1].Invested
LumpOf(i) == IF lump_sum > 0 /\ i = LumpMonth THEN lump_sum * Rupee ELSE 0

\* C13: in every accumulation month the contribution goes in before growth
\* for BEGINNING_OF_MONTH, then the lump sum if due, then growth (nothing at
\* rate 0), then the contribution after growth for END_OF_MONTH; the
\* contribution enters balance and cumulative total once per month, and the
\* row is appended after all of it (it shows the final balance and total).
C13_OrderInMonth ==
  SipRun =>
    /\ \A i \in 1..Len(rows) :
         /\ rows[i].Value =
              IF invest_at_beginning
                THEN Grown(ValueBefore(i) + rows[i].SIP + LumpOf(i))
                ELSE Grown(ValueBefore(i) + LumpOf(i)) + rows[i].SIP
         /\ rows[i].Invested = InvestedBefore(i) + rows[i].SIP + LumpOf(i)
    /\ rows # <<>> =>
         /\ Last(rows).Value = balance
         /\ Last(rows).Invested = total_sip_contrib + total_lumpsum_contrib

C13_Witness ==
  /\ SipDone /\ annual_return_pct > 0 /\ monthly_sip > 0 /\ lump_sum > 0
  /\ ~invest_at_beginning /\ lump_sum_timing = "Invest after 1 month"
  /\ rows[2].Value = Grown(rows[1].Value + lump_sum * Rupee) + rows[2].SIP
  /\ rows[2].Value # Grown(rows[1].Value + lump_sum * Rupee + rows[2].SIP)

\* ------------------------------------------------------- decumulation month
\* x * rate for an annual percentage
Times(x, pct) == MulDiv(x, pct, 1200)

\* C14: a simulated decumulation month with opening balance > 0.  Before
\* the start month: withdrawal 0, total withdrawn unchanged, balance =
\* opening + opening * g, phase "Growth only".  From the start month on,
\* START_OF_MONTH: withdrawal = opening * w, balance = (opening - withdrawal)
\* grown by g; END_OF_MONTH: withdrawal = (opening + opening * g) * w,
\* balance = opening + growth - withdrawal; the withdrawal is added to the
\* total withdrawn in both.
C14_MonthFlows ==
  [][ prog = "swp" /\ pc = "loop" /\ m <= months /\ balance > 0 =>
        LET opening == balance
            row == Last(rows')
        IN  /\ Len(rows') = Len(rows) + 1
            /\ row.Month = m
            /\ IF m < StartMonthOf(withdraw_start_year) THEN
                  /\ balance' = opening + Times(opening, exp_return_pa)
                  /\ total_withdrawn' = total_withdrawn
                  /\ row.Withdrawal = 0
                  /\ row.Phase = "Growth only"
                ELSE IF withdraw_timing = "Start of month" THEN
                  LET withdrawal == Times(opening, withdraw_pct_pa)
                      rest == opening - withdrawal
                  IN  /\ balance' = rest + Times(rest, exp_return_pa)
                      /\ total_withdrawn' = total_withdrawn + withdrawal
                      /\ row.Withdrawal = Round2(withdrawal)
                      /\ row.Phase = "Withdrawal"
                ELSE
                  LET growth == Times(opening, exp_return_pa)
                      withdrawal == Times(opening + growth, withdraw_pct_pa)
                  IN  /\ balance' = opening + growth - withdrawal
                      /\ total_withdrawn' = total_withdrawn + withdrawal
                      /\ row.Withdrawal = Round2(withdrawal)
                      /\ row.Phase = "Withdrawal"
    ]_vars

C14_Witness ==
  /\ SwpDone /\ tenure_years = 2 /\ withdraw_start_year = 2
  /\ withdraw_timing = "End of month" /\ exp_return_pa > 0
  /\ Len(rows) = 24 /\ total_withdrawn > 0
  /\ rows[12].Phase = "Growth only" /\ rows[12].Withdrawal = 0
  /\ rows[13].Phase = "Withdrawal" /\ rows[13].Withdrawal > 0

\* ------------------------------------------------------- the two timings
OtherTiming ==
  IF withdraw_timing = "Start of month" THEN "End of month"
  ELSE "Start of month"

Dist(a, b) == IF a >= b THEN a - b ELSE b - a

SwpInLoop == prog = "swp" /\ pc \in {"loop", "summary", "done"}

\* the run as far as it has got, under the selected and the other timing
Own == LoopAt(withdraw_timing, Len(rows))
Twin == LoopAt(OtherTiming, Len(rows))

C16_DepletedRow ==
  SwpRun =>
    /\ \A i \in 1..Len(rows) :
         rows[i].Phase = "Depleted" =>
           /\ i = 1 /\ Len(rows) = 1
           /\ initial_corpus <= 0
           /\ rows[i].Opening = 0 /\ rows[i].Withdrawal = 0
           /\ rows[i].Growth = 0 /\ rows[i].Closing = 0
    /\ initial_corpus > 0 =>
         \A i \in 1..Len(rows) : rows[i].Phase # "Depleted"
    /\ initial_corpus <= 0 /\ pc = "done" =>
         Len(rows) = 1 /\ rows[1].Phase = "Depleted"

C16_Witness ==
  /\ SwpDone /\ initial_corpus > 0 /\ balance <= 0
  /\ Len(rows) >= 1 /\ Len(rows) < months
  /\ \A i \in 1..Len(rows) : rows[i].Phase # "Depleted"

\* --------------------------------------------------------------- early stop
FirstActiveMonth == (withdraw_start_year - 1) * 12 + 1

====
